---- MODULE Spec2Model ----
(***************************************************************************)
(* The completion websocket session of src/actors/completion_websocket.rs: *)
(* one actor per connection, its inbound frame decoder, its command        *)
(* handlers, the background generation futures it spawns and its liveness  *)
(* watchdog.                                                               *)
(*                                                                         *)
(* It is followed by the HTTP handlers of src/handlers and the operators   *)
(* of src/operators that the other properties are about.                   *)
(*                                                                         *)
(* Option<T> values are sequences: None is <<>> and Some(x) is <<x>>.      *)
(* Text is a sequence of characters, so that concatenation is \o.          *)
(***************************************************************************)
EXTENDS Integers, Sequences, FiniteSets, TLC

VARIABLES
    conn,          \* "Open" while the actor runs, "Closed" once it is gone
    panicked,      \* TRUE iff the actor was torn down by a panic
    stops,         \* number of ctx.stop() calls that tore the actor down
    topic_id,      \* CompletionWebSeocket.topic_id : Option<Uuid>
    last_pong,     \* CompletionWebSeocket.last_pong, in seconds
    spawn_handle,  \* CompletionWebSeocket.spawn_handle : Option<SpawnHandle>
    gens,          \* the futures spawned by Prompt, in spawn order
    out,           \* frames written to the connection output, in order
    store,         \* ConversationStore: topic -> persisted messages
    log,           \* the frames handled so far, in order (observation)
    heard,         \* arrival times of the last ping / last transport pong, end of the inbound stream
    now,           \* chrono::Utc::now(), in seconds
    tick_at,       \* the time at which the run_interval closure fires next
    frames_left,   \* inbound frames the client will still send
    horizon,       \* Some(t): the run is observed up to time t; None: for ever
    db,            \* the relational tables the HTTP handlers and operators use
    replies        \* the HTTP requests and operator calls served so far, in order

vars == <<conn, panicked, stops, topic_id, last_pong, spawn_handle, gens, out,
          store, log, heard, now, tick_at, frames_left, horizon, db, replies>>

----------------------------------------------------------------------------
\* Bounds of the model.

\* inbound frames of a session observed up to the first tick of its watchdog
MaxFrames == 2
\* inbound frames of a session observed until it is closed
MaxWatchedFrames == 1
\* items the provider yields to the generations of one session
MaxTokens == 2

----------------------------------------------------------------------------
\* Program constants.

\* the watchdog closes when more than this many whole seconds have passed
Timeout == 10
\* period of the watchdog, in seconds
TickSeconds == 1

None == <<>>
Some(x) == <<x>>

\* The session's user; "U2" is another one.
SessionUser == "U1"

\* T1 belongs to the session's user, T2 to somebody else, T3 to nobody.
Topics == {"T1", "T2", "T3"}

\* The provider's increments: the n-th item of a stream is one character
\* for odd n and two characters for even n.
ProviderItem(n) == IF n % 2 = 1 THEN <<"a">> ELSE <<"b", "c">>

\* models::Message, as far as the session reads or writes it.
Message(content, topic, seq, role, ptok, ctok) ==
    [content |-> content, topic_id |-> topic, sequence_number |-> seq,
     role |-> role, prompt_tokens |-> ptok, completion_tokens |-> ctok]

\* Message::from_details(content, topic_id, sort_order, role, prompt_tokens,
\* completion_tokens)
FromDetails(content, topic, seq, role, ptok, ctok) ==
    Message(content, topic, seq, role, ptok, ctok)

UserMessage(topic, seq) == Message(<<"q">>, topic, seq, "user", None, None)

\* The values of previous_messages a client sends: no message, one message
\* of its own topic, two messages the first of which is of a foreign topic.
Histories ==
    {<<>>,
     <<UserMessage("T1", 1)>>,
     <<UserMessage("T2", 1), UserMessage("T1", 2)>>}

----------------------------------------------------------------------------
\* Inbound frames: Result<ws::Message, ws::ProtocolError>.

CommandNames == {"ping", "prompt", "regenerateMessage", "changeTopic", "stop", "bogus"}

\* MessageDTO, the JSON shape of a text frame.
MessageDTO(c, pm, t) == [command |-> c, previous_messages |-> pm, topic_id |-> t]

NoDTO == MessageDTO("", None, None)

Frame(kind, json, dto) == [kind |-> kind, json |-> json, dto |-> dto]

ControlKinds == {"Ping", "Pong", "Binary", "Close", "Continuation", "Nop", "ProtocolError"}

InboundFrames ==
    {Frame(k, FALSE, NoDTO) : k \in ControlKinds}
    \cup {Frame("Text", FALSE, NoDTO)}
    \cup {Frame("Text", TRUE, MessageDTO(c, pm, t)) :
            c \in CommandNames,
            pm \in {None} \cup {Some(h) : h \in Histories},
            t \in {None} \cup {Some(x) : x \in Topics}}

\* enum Command
Command(c, msgs, topic, reason) ==
    [cmd |-> c, messages |-> msgs, topic_id |-> topic, reason |-> reason]

Ping == Command("Ping", <<>>, "", "")
Prompt(msgs) == Command("Prompt", msgs, "", "")
RegenerateMessage == Command("RegenerateMessage", <<>>, "", "")
ChangeTopic(t) == Command("ChangeTopic", <<>>, t, "")
Stop == Command("Stop", <<>>, "", "")
InvalidMessage(e) == Command("InvalidMessage", <<>>, "", e)

\* serde_json::from_str::<MessageDTO>(&text): Ok for a payload of the DTO's
\* shape, Err otherwise.
ParsedIsErr(f) == ~f.json

\* Mutant of FromText: the "changeTopic" arm does not match.
FromTextNoChangeTopic(message) ==
    CASE message.command = "ping" -> Ping
      [] message.command = "prompt" /\ message.previous_messages # None ->
            Prompt(message.previous_messages[1])
      [] message.command = "regenerateMessage" -> RegenerateMessage
      [] message.command = "stop" -> Stop
      [] OTHER -> InvalidMessage("Missing properties")

\* impl From<ws::Message> for Command, the Text arm after a successful parse
FromText(message) ==
    CASE message.command = "ping" -> Ping
      [] message.command = "prompt" /\ message.previous_messages # None ->
            Prompt(message.previous_messages[1])
      [] message.command = "regenerateMessage" -> RegenerateMessage
      [] message.command = "changeTopic" /\ message.topic_id # None ->
            ChangeTopic(message.topic_id[1])
      [] message.command = "stop" -> Stop
      [] OTHER -> InvalidMessage("Missing properties")

\* Mutant of FromMessage: a transport pong counts as a ping.
FromMessagePongIsPing(f) ==
    CASE f.kind \in {"Ping", "Pong"} -> Ping
      [] f.kind = "Text" ->
            IF ParsedIsErr(f) THEN InvalidMessage("Invalid message")
            ELSE FromText(f.dto)
      [] f.kind = "Binary" -> InvalidMessage("Binary not a valid operation")
      [] f.kind = "Close" -> InvalidMessage("Close not a operation")
      [] f.kind = "Continuation" -> InvalidMessage("Continuation not a operation")
      [] f.kind = "Nop" -> InvalidMessage("Nop not a operation")

\* impl From<ws::Message> for Command
FromMessage(f) ==
    CASE f.kind = "Ping" -> Ping
      [] f.kind = "Text" ->
            IF ParsedIsErr(f) THEN InvalidMessage("Invalid message")
            ELSE FromText(f.dto)
      [] f.kind = "Binary" -> InvalidMessage("Binary not a valid operation")
      [] f.kind = "Close" -> InvalidMessage("Close not a operation")
      [] f.kind = "Continuation" -> InvalidMessage("Continuation not a operation")
      [] f.kind = "Nop" -> InvalidMessage("Nop not a operation")
      [] f.kind = "Pong" -> InvalidMessage("Pong not a operation")

\* StreamHandler::handle, the decoding of msg
Decode(f) ==
    IF f.kind = "ProtocolError" THEN InvalidMessage("Invalid message")
    ELSE FromMessage(f)

----------------------------------------------------------------------------
\* Outbound frames.  gen is the index of the generation that wrote the frame
\* (0 for a frame written by a command handler); it is not on the wire.

OutFrame(type, text, messages, reason, gen) ==
    [type |-> type, text |-> text, messages |-> messages, reason |-> reason, gen |-> gen]

\* ctx.pong("Pong")
PongFrame == OutFrame("pong", <<>>, <<>>, "", 0)
\* Response::ChatMessage(text)
ChatMessageFrame(text, g) == OutFrame("chatMessage", text, <<>>, "", g)
\* Response::Messages(messages)
MessagesFrame(messages) == OutFrame("messages", <<>>, messages, "", 0)
\* Response::Error(reason)
ErrorFrame(reason) == OutFrame("error", <<>>, <<>>, reason, 0)
\* the store's DefaultError, serialised as it is
DefaultErrorFrame == OutFrame("defaultError", <<>>, <<>>, "store error", 0)

----------------------------------------------------------------------------
\* ConversationStore.

\* topics.user_id
TopicOwner(t) == CASE t = "T1" -> Some("U1") [] t = "T2" -> Some("U2") [] OTHER -> None

\* user_owns_topic_query(user_id, topic_id, pool)
user_owns_topic_query(user, t) == TopicOwner(t) = Some(user)

\* get_messages_for_topic_query(topic_id, pool), when the query succeeds
get_messages_for_topic_query(t) == store[t]

InitStore ==
    [t \in Topics |->
        CASE t = "T1" -> <<UserMessage("T1", 1)>>
          [] t = "T2" -> <<UserMessage("T2", 1), UserMessage("T2", 2)>>
          [] OTHER -> <<>>]

----------------------------------------------------------------------------
\* Time.

\* signed_duration_since(..).num_seconds(); the clock counts whole seconds
NumSeconds(t, since) == t - since

\* Mutant of WatchdogExpired: the threshold is not strict.
WatchdogExpiredAtTimeout(t, lp) == NumSeconds(t, lp) >= Timeout

\* the condition of the watchdog closure
WatchdogExpired(t, lp) == NumSeconds(t, lp) > Timeout

----------------------------------------------------------------------------
\* The actor.

\* One spawned future of CompletionWebSeocket::stuff.
\*   pc: "open" before create_stream resolves, "stream" inside the while loop,
\*       "done" after the function returned, "failed" where the provider's
\*       failure was unwrapped
\*   produced: the items the provider has yielded so far (observation)
NewGen(msgs) ==
    [previous_messages |-> msgs, pc |-> "open", response_content |-> <<>>,
     completion_tokens |-> 0, produced |-> <<>>, completion_message |-> None]

SessionWith(frames, until) ==
    /\ frames_left = frames
    /\ horizon = until
    /\ conn = "Open"
    /\ panicked = FALSE
    /\ stops = 0
    /\ topic_id = None
    /\ last_pong = 0
    /\ spawn_handle = None
    /\ gens = <<>>
    /\ out = <<>>
    /\ store = InitStore
    /\ log = <<>>
    /\ heard = [ping |-> 0, pong |-> 0, eof |-> FALSE]
    /\ now = 0
    /\ tick_at = TickSeconds

\* A websocket session; no HTTP request is served meanwhile.
InitWith(frames, until) ==
    /\ SessionWith(frames, until)
    /\ db = <<>>
    /\ replies = <<>>

\* A session observed up to the first tick of its watchdog.
Init == InitWith(MaxFrames, <<TickSeconds>>)

\* A session observed until it is closed.
WatchedInit == InitWith(MaxWatchedFrames, <<>>)

\* A panic unwinds the task that owns the connection: the actor and the
\* futures it spawned are dropped.
PanicEffect ==
    /\ conn' = "Closed"
    /\ panicked' = TRUE

\* Mutant of StopEffect: the stop is requested and the actor keeps running.
StopEffectLost ==
    /\ stops' = stops + 1
    /\ UNCHANGED <<conn, panicked>>

\* ctx.stop()
StopEffect ==
    /\ conn' = "Closed"
    /\ stops' = stops + 1
    /\ UNCHANGED panicked

\* What the log keeps of a handled frame: its kind, whether its payload
\* parsed, the command name it carried, the field the named command reads
\* (previous_messages of "prompt", topic_id of "changeTopic") and the Command
\* it was decoded to.
Handled(f) ==
    [kind |-> f.kind, json |-> f.json, name |-> f.dto.command,
     previous_messages |-> IF f.dto.command = "prompt" THEN f.dto.previous_messages ELSE None,
     topic_id |-> IF f.dto.command = "changeTopic" THEN f.dto.topic_id ELSE None,
     command |-> Decode(f)]

\* Mutant of Arrives: the actor takes no frame while a spawned generation has
\* not finished.
ArrivesWhenIdle(f, c) ==
    /\ conn = "Open"
    /\ \A g \in 1..Len(gens) : gens[g].pc \notin {"open", "stream"}
    /\ frames_left > 0
    /\ frames_left' = frames_left - 1
    /\ UNCHANGED <<horizon, db, replies>>
    /\ Decode(f).cmd = c
    /\ log' = Append(log, Handled(f))
    /\ heard' = [ping |-> IF f.kind = "Ping" \/ Decode(f).cmd = "Ping" THEN now ELSE heard.ping,
                 pong |-> IF f.kind = "Pong" THEN now ELSE heard.pong,
                 eof |-> heard.eof]

\* Mutant of Arrives: frames are still taken after the actor stopped.
ArrivesAfterStop(f, c) ==
    /\ frames_left > 0
    /\ frames_left' = frames_left - 1
    /\ UNCHANGED <<horizon, db, replies>>
    /\ Decode(f).cmd = c
    /\ log' = Append(log, Handled(f))
    /\ heard' = [ping |-> IF f.kind = "Ping" \/ Decode(f).cmd = "Ping" THEN now ELSE heard.ping,
                 pong |-> IF f.kind = "Pong" THEN now ELSE heard.pong,
                 eof |-> heard.eof]

\* A frame f that decodes to command c arrives and handle(f) starts.
Arrives(f, c) ==
    /\ conn = "Open"
    /\ frames_left > 0
    /\ frames_left' = frames_left - 1
    /\ UNCHANGED <<horizon, db, replies>>
    /\ Decode(f).cmd = c
    /\ log' = Append(log, Handled(f))
    /\ heard' = [ping |-> IF f.kind = "Ping" \/ Decode(f).cmd = "Ping" THEN now ELSE heard.ping,
                 pong |-> IF f.kind = "Pong" THEN now ELSE heard.pong,
                 eof |-> heard.eof]

\* Mutant of PingLastPong: the ping does not refresh last_pong.
PingLastPongStale(cur, t) == cur

\* self.last_pong after Command::Ping handled at time t
PingLastPong(cur, t) == t

\* Mutant of PingOut: the ping is not acknowledged.
PingOutNone(o) == o

\* the output after Command::Ping: ctx.pong("Pong")
PingOut(o) == Append(o, PongFrame)

\* Command::Ping
HandlePing ==
    \E f \in InboundFrames :
        /\ Arrives(f, "Ping")
        /\ last_pong' = PingLastPong(last_pong, now)
        /\ out' = PingOut(out)
        /\ UNCHANGED <<conn, panicked, stops, topic_id, spawn_handle, gens, store, now, tick_at>>

\* Mutant of HandlePrompt: a history whose first message is in a topic the
\* user does not own is refused with an error.
HandlePromptOwned ==
    \E f \in InboundFrames :
        /\ Arrives(f, "Prompt")
        /\ IF /\ Decode(f).messages # <<>>
              /\ ~user_owns_topic_query(SessionUser, Decode(f).messages[1].topic_id)
           THEN /\ out' = Append(out, ErrorFrame("User does not own topic"))
                /\ UNCHANGED <<gens, spawn_handle>>
           ELSE /\ gens' = Append(gens, NewGen(Decode(f).messages))
                /\ spawn_handle' = Some(Len(gens) + 1)
                /\ UNCHANGED out
        /\ UNCHANGED <<conn, panicked, stops, topic_id, last_pong, store, now, tick_at>>

\* Command::Prompt(messages)
HandlePrompt ==
    \E f \in InboundFrames :
        /\ Arrives(f, "Prompt")
        /\ gens' = Append(gens, NewGen(Decode(f).messages))
        /\ spawn_handle' = Some(Len(gens) + 1)
        /\ UNCHANGED <<conn, panicked, stops, topic_id, last_pong, out, store, now, tick_at>>

\* Command::RegenerateMessage: todo!()
HandleRegenerateMessage ==
    \E f \in InboundFrames :
        /\ Arrives(f, "RegenerateMessage")
        /\ PanicEffect
        /\ UNCHANGED <<stops, topic_id, last_pong, spawn_handle, gens, out, store, now, tick_at>>

\* The frame Command::ChangeTopic(t) writes; fetched is the outcome of
\* get_messages_for_topic_query.
ChangeTopicFrame(t, fetched) ==
    IF ~user_owns_topic_query(SessionUser, t) THEN ErrorFrame("User does not own topic")
    ELSE IF fetched THEN MessagesFrame(get_messages_for_topic_query(t))
    ELSE DefaultErrorFrame

\* Mutant of ChangeTopicTopic: the topic is switched before the ownership
\* check.
ChangeTopicTopicEager(cur, t) == Some(t)

\* The value of self.topic_id after Command::ChangeTopic(t).
ChangeTopicTopic(cur, t) == cur

\* Command::ChangeTopic(topic_id); the messages are fetched, with either
\* outcome, only for a topic the user owns
HandleChangeTopic ==
    \E f \in InboundFrames, fetched \in BOOLEAN :
        /\ Arrives(f, "ChangeTopic")
        /\ (fetched \/ user_owns_topic_query(SessionUser, Decode(f).topic_id))
        /\ out' = Append(out, ChangeTopicFrame(Decode(f).topic_id, fetched))
        /\ topic_id' = ChangeTopicTopic(topic_id, Decode(f).topic_id)
        /\ UNCHANGED <<conn, panicked, stops, last_pong, spawn_handle, gens, store, now, tick_at>>

\* Command::Stop: todo!()
HandleStop ==
    \E f \in InboundFrames :
        /\ Arrives(f, "Stop")
        /\ PanicEffect
        /\ UNCHANGED <<stops, topic_id, last_pong, spawn_handle, gens, out, store, now, tick_at>>

\* Mutant of InvalidOut: the error is not reported.
InvalidOutSilent(o, e) == o

\* Mutant of InvalidOut: the error is reported without the decoder's reason.
InvalidOutGeneric(o, e) == Append(o, ErrorFrame("Invalid message"))

\* Mutant of InvalidOut: the error overtakes the output already queued.
InvalidOutFirst(o, e) == <<ErrorFrame(e)>> \o o

\* the output after Command::InvalidMessage(e)
InvalidOut(o, e) == Append(o, ErrorFrame(e))

\* Mutant of HandleInvalidMessage: a Close frame is answered and the actor
\* stops itself.
HandleInvalidMessageClosing ==
    \E f \in InboundFrames :
        /\ Arrives(f, "InvalidMessage")
        /\ out' = InvalidOut(out, Decode(f).reason)
        /\ IF f.kind = "Close" THEN StopEffect ELSE UNCHANGED <<conn, panicked, stops>>
        /\ UNCHANGED <<topic_id, last_pong, spawn_handle, gens, store, now, tick_at>>

\* Command::InvalidMessage(e)
HandleInvalidMessage ==
    \E f \in InboundFrames :
        /\ Arrives(f, "InvalidMessage")
        /\ out' = InvalidOut(out, Decode(f).reason)
        /\ UNCHANGED <<conn, panicked, stops, topic_id, last_pong, spawn_handle, gens, store, now, tick_at>>

----------------------------------------------------------------------------
\* CompletionWebSeocket::stuff, one step per resumption of the future.

\* String::push_str
PushStr(content, chat_content) == content \o chat_content

\* Mutant of EmitToken: the frame is put in front of the queued output.
EmitTokenFirst(o, chat_content, g) == <<ChatMessageFrame(chat_content, g)>> \o o

\* ctx.text(serde_json::to_string(&Response::ChatMessage(chat_content)))
EmitToken(o, chat_content, g) == Append(o, ChatMessageFrame(chat_content, g))

\* the models::Message built when the stream is exhausted
CompletionMessage(gen) ==
    FromDetails(gen.response_content,
                gen.previous_messages[1].topic_id,
                Len(gen.previous_messages) + 1,
                "assistant",
                Some(0),
                Some(gen.completion_tokens))

\* The store after stuff returned: the ChatCompletionDTO is built and dropped.
StoreAfterCompletion(s, m) == s

Running(g) == g \in 1..Len(gens) /\ gens[g].pc \in {"open", "stream"}

RECURSIVE Yielded(_)
\* the number of items the provider has yielded to the generations gs
Yielded(gs) == IF gs = <<>> THEN 0 ELSE Len(Head(gs).produced) + Yielded(Tail(gs))

\* client.chat().create_stream(parameters).await.unwrap()
StreamOpen ==
    \E g \in 1..Len(gens), ok \in BOOLEAN :
        /\ conn = "Open"
        /\ gens[g].pc = "open"
        /\ IF ok
           THEN /\ gens' = [gens EXCEPT ![g].pc = "stream"]
                /\ UNCHANGED <<conn, panicked>>
           ELSE /\ PanicEffect
                /\ gens' = [gens EXCEPT ![g].pc = "failed"]
        /\ UNCHANGED <<stops, topic_id, last_pong, spawn_handle, out, store, log, heard, now, tick_at, frames_left, horizon, db, replies>>

\* Mutant of StreamToken: the future is still polled after the actor stopped.
StreamTokenAfterStop ==
    \E g \in 1..Len(gens) :
      LET chat_content == ProviderItem(Len(gens[g].produced) + 1) IN
        /\ gens[g].pc = "stream"
        /\ Yielded(gens) < MaxTokens
        /\ gens' = [gens EXCEPT
                      ![g].produced = Append(@, chat_content),
                      ![g].completion_tokens = @ + 1,
                      ![g].response_content = PushStr(@, chat_content)]
        /\ out' = EmitToken(out, chat_content, g)
        /\ UNCHANGED <<conn, panicked, stops, topic_id, last_pong, spawn_handle, store, log,
                       heard, now, tick_at, frames_left, horizon, db, replies>>

\* stream.next().await yields Some(Ok(chunk)) whose delta has content
StreamToken ==
    \E g \in 1..Len(gens) :
      LET chat_content == ProviderItem(Len(gens[g].produced) + 1) IN
        /\ conn = "Open"
        /\ gens[g].pc = "stream"
        /\ Yielded(gens) < MaxTokens
        /\ gens' = [gens EXCEPT
                      ![g].produced = Append(@, chat_content),
                      ![g].completion_tokens = @ + 1,
                      ![g].response_content = PushStr(@, chat_content)]
        /\ out' = EmitToken(out, chat_content, g)
        /\ UNCHANGED <<conn, panicked, stops, topic_id, last_pong, spawn_handle, store, log,
                       heard, now, tick_at, frames_left, horizon, db, replies>>

\* stream.next().await yields Some(Err(_)) or a delta without content: unwrap
\* panics
StreamBadItem ==
    \E g \in 1..Len(gens) :
        /\ conn = "Open"
        /\ gens[g].pc = "stream"
        /\ PanicEffect
        /\ gens' = [gens EXCEPT ![g].pc = "failed"]
        /\ UNCHANGED <<stops, topic_id, last_pong, spawn_handle, out, store, log, heard,
                       now, tick_at, frames_left, horizon, db, replies>>

\* stream.next().await yields None: the loop ends and the message is built;
\* previous_messages[0] panics on an empty history
StreamEnd ==
    \E g \in 1..Len(gens) :
        /\ conn = "Open"
        /\ gens[g].pc = "stream"
        /\ IF gens[g].previous_messages = <<>>
           THEN /\ PanicEffect
                /\ UNCHANGED <<gens, store>>
           ELSE /\ gens' = [gens EXCEPT
                              ![g].pc = "done",
                              ![g].completion_message = Some(CompletionMessage(gens[g]))]
                /\ store' = StoreAfterCompletion(store, CompletionMessage(gens[g]))
                /\ UNCHANGED <<conn, panicked>>
        /\ UNCHANGED <<stops, topic_id, last_pong, spawn_handle, out, log, heard, now, tick_at, frames_left, horizon, db, replies>>

----------------------------------------------------------------------------
\* Actor::started: the watchdog registered with ctx.run_interval.

\* Mutant of Tick: the interval does not fire while a spawned generation has
\* not finished.
TickWhenIdle ==
    /\ conn = "Open"
    /\ \A g \in 1..Len(gens) : gens[g].pc \notin {"open", "stream"}
    /\ now = tick_at
    /\ tick_at' = tick_at + TickSeconds
    /\ IF WatchdogExpired(now, last_pong)
       THEN StopEffect
       ELSE UNCHANGED <<conn, panicked, stops>>
    /\ UNCHANGED <<topic_id, last_pong, spawn_handle, gens, out, store, log, heard, now, frames_left,
                   horizon, db, replies>>

Tick ==
    /\ conn = "Open"
    /\ now = tick_at
    /\ tick_at' = tick_at + TickSeconds
    /\ IF WatchdogExpired(now, last_pong)
       THEN StopEffect
       ELSE UNCHANGED <<conn, panicked, stops>>
    /\ UNCHANGED <<topic_id, last_pong, spawn_handle, gens, out, store, log, heard, now, frames_left,
                   horizon, db, replies>>

\* Time passes; a due tick runs before the clock moves on.
Advance ==
    /\ conn = "Open"
    /\ now < tick_at
    /\ \A i \in DOMAIN horizon : now < horizon[i]
    /\ now' = now + 1
    /\ UNCHANGED <<conn, panicked, stops, topic_id, last_pong, spawn_handle, gens, out, store,
                   log, heard, tick_at, frames_left, horizon, db, replies>>

Next ==
    \/ HandlePing
    \/ HandlePrompt
    \/ HandleRegenerateMessage
    \/ HandleChangeTopic
    \/ HandleStop
    \/ HandleInvalidMessage
    \/ StreamOpen
    \/ StreamToken
    \/ StreamBadItem
    \/ StreamEnd
    \/ Tick
    \/ Advance

Spec == Init /\ [][Next]_vars

\* The client goes away: the inbound stream ends and StreamHandler::finished,
\* which the actor does not override, stops the actor.
Disconnect ==
    /\ conn = "Open"
    /\ StopEffect
    /\ heard' = [heard EXCEPT !.eof = TRUE]
    /\ UNCHANGED <<topic_id, last_pong, spawn_handle, gens, out, store, log, now, tick_at,
                   frames_left, horizon, db, replies>>

\* A session observed until it is closed ends by the watchdog, by a panic or
\* by the client going away.
WatchedNext == Next \/ Disconnect

\* The interval timer fires and the clock moves for as long as the actor runs.
WatchedSpec == WatchedInit /\ [][WatchedNext]_vars /\ WF_vars(Tick) /\ WF_vars(Advance)

----------------------------------------------------------------------------
\* Observations the properties are stated with.

Last(q) == q[Len(q)]

Max(a, b) == IF a >= b THEN a ELSE b

\* the chatMessage frames generation g has written, in output order
ChatFramesOf(g) == SelectSeq(out, LAMBDA fr : fr.type = "chatMessage" /\ fr.gen = g)

TextsOf(frames) == [i \in 1..Len(frames) |-> frames[i].text]

RECURSIVE Concat(_)
Concat(texts) == IF texts = <<>> THEN <<>> ELSE Head(texts) \o Concat(Tail(texts))

\* the messages inserted into the store since the session began
Persisted ==
    UNION {{store[t][i] : i \in (Len(InitStore[t]) + 1)..Len(store[t])} : t \in Topics}

\* generation g ran to the end of its provider stream
Completed(g) == g \in 1..Len(gens) /\ gens[g].pc = "done"

\* this step handles one more inbound frame
FrameStep == Len(log') = Len(log) + 1

\* the number of times the connection has been torn down
Closures == stops + (IF panicked THEN 1 ELSE 0)

\* the last time a ping or a transport pong arrived (0: the session's start)
LastHeardAt == Max(heard.ping, heard.pong)

\* the watchdog has stopped the actor
WatchdogClosed == conn = "Closed" /\ stops > 0 /\ ~heard.eof

----------------------------------------------------------------------------
\* C1: for every generation that ran to the end of its stream, exactly one
\* assistant message has been persisted whose content is the in-order
\* concatenation of the texts of the generation's chatMessage frames.
C1_PersistedContentIsConcatenation ==
    \A g \in 1..Len(gens) :
        Completed(g) =>
            Cardinality({m \in Persisted :
                            /\ m.role = "assistant"
                            /\ m.content = Concat(TextsOf(ChatFramesOf(g)))}) = 1

\* C2: for every completed generation, completion_tokens of the persisted
\* assistant message equals the number of chatMessage frames it emitted.
C2_PersistedTokenCountIsFrameCount ==
    \A g \in 1..Len(gens) :
        Completed(g) =>
            \E m \in Persisted :
                m.completion_tokens = Some(Len(ChatFramesOf(g)))

\* C3: at every moment the chatMessage frames of a generation on the output
\* are exactly the items its provider stream has yielded so far, one frame
\* per item and in the provider's order: a frame is written before the next
\* item is polled, nothing is dropped, repeated, merged or reordered.
C3_FramesFollowProviderOrder ==
    \A g \in 1..Len(gens) : TextsOf(ChatFramesOf(g)) = gens[g].produced

\* C3 witness: a generation has relayed two different items.
C3_Witness ==
    \E g \in 1..Len(gens) :
        /\ Len(gens[g].produced) = 2
        /\ gens[g].produced[1] # gens[g].produced[2]
        /\ Len(ChatFramesOf(g)) = 2

\* C4: once a provider stream is exhausted, a message with role assistant,
\* the topic of the first history message, sequence number history length
\* plus 1 and the accumulated text as content has been persisted.
C4_CompletionMessagePersisted ==
    \A g \in 1..Len(gens) :
        Completed(g) =>
            \E m \in Persisted :
                /\ m.role = "assistant"
                /\ m.topic_id = gens[g].previous_messages[1].topic_id
                /\ m.sequence_number = Len(gens[g].previous_messages) + 1
                /\ m.content = gens[g].response_content

\* C5: handling Stop while a generation is in flight leaves the session
\* open with no generation handle, writes no frame and persists nothing.
C5_StopCancelsGeneration ==
    [][(/\ FrameStep
        /\ Last(log').command.cmd = "Stop"
        /\ \E g \in 1..Len(gens) : Running(g))
       => (/\ conn' = "Open"
           /\ spawn_handle' = None
           /\ out' = out
           /\ store' = store)]_vars

\* C6: handling ChangeTopic for a topic the session's user does not own
\* leaves topic_id as it was and writes exactly one frame, an error frame.
C6_UnownedTopicRejected ==
    [][(/\ FrameStep
        /\ Last(log').command.cmd = "ChangeTopic"
        /\ ~user_owns_topic_query(SessionUser, Last(log').command.topic_id))
       => (/\ topic_id' = topic_id
           /\ Len(out') = Len(out) + 1
           /\ SubSeq(out', 1, Len(out)) = out
           /\ Last(out').type = "error")]_vars

\* C6 witness: the last frame handled was a ChangeTopic for a foreign topic
\* and it was answered by an error frame.
C6_Witness ==
    /\ log # <<>>
    /\ Last(log).command.cmd = "ChangeTopic"
    /\ ~user_owns_topic_query(SessionUser, Last(log).command.topic_id)
    /\ out # <<>>
    /\ Last(out).type = "error"
    /\ conn = "Open"

\* C7: handling ChangeTopic for an owned topic whose messages are fetched
\* sets topic_id to that topic and writes exactly one messages frame with
\* the topic's messages.
C7_OwnedTopicBecomesCurrent ==
    [][(/\ FrameStep
        /\ Last(log').command.cmd = "ChangeTopic"
        /\ user_owns_topic_query(SessionUser, Last(log').command.topic_id)
        /\ Last(out').type # "defaultError")
       => (/\ topic_id' = Some(Last(log').command.topic_id)
           /\ out' = Append(out, MessagesFrame(store[Last(log').command.topic_id])))]_vars

\* C8: handling a text frame whose payload does not parse writes exactly one
\* frame, an error frame, leaves the connection open and changes nothing of
\* the session, so that later frames are handled as if it had not been sent.
C8_MalformedFrameOnlyReportsError ==
    [][(/\ FrameStep
        /\ Last(log').kind = "Text"
        /\ ~Last(log').json)
       => (/\ Len(out') = Len(out) + 1
           /\ SubSeq(out', 1, Len(out)) = out
           /\ Last(out').type = "error"
           /\ conn' = "Open"
           /\ UNCHANGED <<panicked, stops, topic_id, last_pong, spawn_handle, gens, store>>)]_vars

\* C8 witness: a malformed text frame was answered by an error frame and a
\* ping sent after it was answered by a pong on the still open connection.
C8_Witness ==
    /\ Len(log) = 2
    /\ log[1].kind = "Text" /\ ~log[1].json
    /\ log[2].command.cmd = "Ping"
    /\ out = <<ErrorFrame("Invalid message"), PongFrame>>
    /\ conn = "Open"

\* C9: once more than Timeout seconds have passed since a ping or a
\* transport pong last arrived, the connection is eventually closed; and
\* the connection is never torn down more than once.
C9_SilenceClosesOnce ==
    /\ (conn = "Open" /\ now - LastHeardAt > Timeout) ~> (conn = "Closed")
    /\ [](Closures <= 1)
    /\ [](conn = "Closed" => Closures = 1)

\* C9 witness: the watchdog closed a silent connection.
C9_Witness ==
    /\ WatchdogClosed
    /\ ~panicked
    /\ stops = 1
    /\ now - LastHeardAt > Timeout

\* C10 as stated: the watchdog closes only when neither a ping nor a
\* transport pong arrived during the preceding Timeout seconds.
C10_ClosedOnlyWithoutPingOrPong ==
    WatchdogClosed => now - LastHeardAt > Timeout

\* C10 amended: the watchdog closes only when no ping (a transport ping or a
\* text frame with command "ping") arrived during the preceding Timeout
\* seconds; transport pongs do not count.
C10_ClosedOnlyWithoutPing ==
    WatchdogClosed => now - heard.ping > Timeout

\* C10 witness: the watchdog closed a connection on which a transport pong
\* had arrived less than Timeout seconds before.
C10_Witness ==
    /\ WatchdogClosed
    /\ heard.pong > heard.ping
    /\ now - heard.pong < Timeout

\* C11: handling a Ping, whether it came as a transport ping or as a text
\* frame whose command is "ping", sets last_pong to the current time, writes
\* exactly one pong frame and leaves topic_id, the generation handle and the
\* generations alone; and an open connection takes a ping in every state,
\* a running generation included.
C11_PingAcknowledged ==
    /\ [][(FrameStep /\ Last(log').command.cmd = "Ping")
          => (/\ last_pong' = now
              /\ out' = Append(out, PongFrame)
              /\ topic_id' = topic_id
              /\ spawn_handle' = spawn_handle
              /\ gens' = gens
              /\ conn' = "Open")]_vars
    /\ []((conn = "Open" /\ frames_left > 0) => ENABLED HandlePing)

\* A text "ping" has been answered after the clock moved, while a generation
\* that has already written a token is still running.
C11_Witness ==
    /\ log # <<>>
    /\ Last(log).kind = "Text"
    /\ Last(log).command.cmd = "Ping"
    /\ out # <<>>
    /\ Last(out) = PongFrame
    /\ now > 0
    /\ last_pong = now
    /\ \E g \in 1..Len(gens) : Running(g) /\ gens[g].completion_tokens > 0

\* C12: at most one generation is in flight at any instant.
C12_OneGenerationInFlight ==
    \A g, h \in 1..Len(gens) : (Running(g) /\ Running(h)) => g = h

\* C13: after the provider failed (the stream could not be opened, or an item
\* was an error or carried no content) the connection is still open, an error
\* frame has been written and nothing was persisted.
C13_ProviderFailureReported ==
    \A g \in 1..Len(gens) :
        gens[g].pc = "failed"
            => (/\ conn = "Open"
                /\ \E i \in 1..Len(out) : out[i].type = "error"
                /\ Persisted = {})

\* C14: no sequence of frames and provider events makes the actor panic.
C14_NeverPanics == ~panicked

\* the log entries of text frames whose payload parsed and named command n
Named(n) ==
    {i \in 1..Len(log) : log[i].kind = "Text" /\ log[i].json /\ log[i].name = n}

\* C15: a "prompt" frame is decoded to Prompt only when previous_messages is
\* present and not empty, and no generation is ever started on an empty history.
C15_PromptNeedsHistory ==
    /\ \A i \in Named("prompt") :
          log[i].command.cmd = "Prompt"
              <=> (/\ log[i].previous_messages # None
                   /\ log[i].previous_messages[1] # <<>>)
    /\ \A g \in 1..Len(gens) : gens[g].previous_messages # <<>>

\* C16: a "changeTopic" frame is decoded to ChangeTopic exactly when it has a
\* topic_id, and then the command carries that id; without one it is invalid.
C16_ChangeTopicCarriesId ==
    \A i \in Named("changeTopic") :
        IF log[i].topic_id # None
        THEN log[i].command = ChangeTopic(log[i].topic_id[1])
        ELSE log[i].command.cmd = "InvalidMessage"

\* A "changeTopic" frame with a topic_id was followed by one without.
C16_Witness ==
    /\ Len(log) = 2
    /\ Named("changeTopic") = {1, 2}
    /\ log[1].topic_id # None
    /\ log[1].command.cmd = "ChangeTopic"
    /\ log[2].topic_id = None
    /\ log[2].command.cmd = "InvalidMessage"

\* a handled frame that has everything its command needs
WellFormed(e) ==
    \/ e.kind = "Ping"
    \/ /\ e.kind = "Text"
       /\ e.json
       /\ \/ e.name \in {"ping", "regenerateMessage", "stop"}
          \/ e.name = "prompt" /\ e.previous_messages # None
          \/ e.name = "changeTopic" /\ e.topic_id # None

C19_OutboundKinds ==
    \A i \in 1..Len(out) :
        out[i].type # "pong" => out[i].type \in {"messages", "chatMessage", "error"}

\* C20: handling RegenerateMessage leaves the connection open, cuts one topic's
\* stored messages at the target and starts a generation on exactly the
\* messages that remain.
C20_RegenerateTruncatesAndRuns ==
    [][(FrameStep /\ Last(log').command.cmd = "RegenerateMessage")
       => (/\ conn' = "Open"
           /\ Len(gens') = Len(gens) + 1
           /\ \E t \in Topics :
                \E k \in 1..Len(store[t]) :
                    /\ store' = [store EXCEPT ![t] = SubSeq(store[t], 1, k - 1)]
                    /\ Last(gens').previous_messages = store'[t])]_vars

\* C21: handling a Stop when no generation is running changes neither topic_id,
\* last_pong nor the generation handle, persists nothing and leaves the
\* connection open.
C21_IdleStopIsNoOp ==
    [][(/\ FrameStep
        /\ Last(log').command.cmd = "Stop"
        /\ \A g \in 1..Len(gens) : ~Running(g))
       => (/\ conn' = "Open"
           /\ topic_id' = topic_id
           /\ last_pong' = last_pong
           /\ spawn_handle' = spawn_handle
           /\ store' = store)]_vars

\* C22: handling an InvalidMessage command writes exactly one error frame that
\* carries the decoder's reason, and leaves topic_id, last_pong, the generation
\* handle, the generations, the store and the connection as they were.
C22_InvalidOnlyReportsReason ==
    [][(FrameStep /\ Last(log').command.cmd = "InvalidMessage")
       => (/\ out' = Append(out, ErrorFrame(Last(log').command.reason))
           /\ topic_id' = topic_id
           /\ last_pong' = last_pong
           /\ spawn_handle' = spawn_handle
           /\ gens' = gens
           /\ store' = store
           /\ conn' = "Open")]_vars

\* A frame missing its field was refused with "Missing properties" while a
\* generation that has written a token was running.
C22_Witness ==
    /\ log # <<>>
    /\ Last(log).command = InvalidMessage("Missing properties")
    /\ out # <<>>
    /\ Last(out) = ErrorFrame("Missing properties")
    /\ conn = "Open"
    /\ \E g \in 1..Len(gens) : Running(g) /\ gens[g].completion_tokens > 0

\* the position in the log of the Prompt that started generation g
StartedAt(g) ==
    CHOOSE i \in 1..Len(log) :
        /\ log[i].command.cmd = "Prompt"
        /\ Cardinality({j \in 1..i : log[j].command.cmd = "Prompt"}) = g

\* a ChangeTopic for a topic the user owns was handled after generation g began
ChangedTopicSince(g) ==
    \E i \in (StartedAt(g) + 1)..Len(log) :
        /\ log[i].command.cmd = "ChangeTopic"
        /\ user_owns_topic_query(SessionUser, log[i].command.topic_id)

\* C23: handling a ChangeTopic for an owned topic leaves the generations and
\* the generation handle alone, and a generation that ends after such a
\* ChangeTopic has its assistant message persisted under the topic of the
\* first message of its own history.
C23_ChangeTopicKeepsGeneration ==
    /\ [][(/\ FrameStep
           /\ Last(log').command.cmd = "ChangeTopic"
           /\ user_owns_topic_query(SessionUser, Last(log').command.topic_id))
          => (gens' = gens /\ spawn_handle' = spawn_handle)]_vars
    /\ [][\A g \in 1..Len(gens) :
            (Running(g) /\ gens'[g].pc = "done" /\ ChangedTopicSince(g))
                => \E m \in Persisted' :
                      /\ m.role = "assistant"
                      /\ m.topic_id = gens[g].previous_messages[1].topic_id
                      /\ m.content = gens'[g].response_content]_vars

\* C27: when a generation ran to the end of its stream and no message was
\* stored for it, an error frame has been written after all of the
\* generation's chatMessage frames, and those frames are still the items the
\* provider yielded, each once.
C27_PersistFailureReported ==
    \A g \in 1..Len(gens) :
        (/\ Completed(g)
         /\ ~\E m \in Persisted :
                m.role = "assistant" /\ m.content = gens[g].response_content)
            => /\ TextsOf(ChatFramesOf(g)) = gens[g].produced
               /\ \E i \in 1..Len(out) :
                    /\ out[i].type = "error"
                    /\ \A j \in 1..Len(out) :
                          (out[j].type = "chatMessage" /\ out[j].gen = g) => j < i

\* C28: once a generation has run to the end of its stream, the session
\* eventually has no generation handle.
C28_HandleClearedAfterCompletion ==
    (\E g \in 1..Len(gens) : Completed(g)) ~> (spawn_handle = None)

\* the frames written by the handlers themselves, in output order
DirectOut == SelectSeq(out, LAMBDA fr : fr.type # "chatMessage")

\* the handled frames whose handler writes a frame, in arrival order
Answered ==
    SelectSeq(log, LAMBDA e : e.command.cmd \in {"Ping", "ChangeTopic", "InvalidMessage"})

\* fr is a frame the handler of the logged frame e writes
Answers(e, fr) ==
    CASE e.command.cmd = "Ping" -> fr = PongFrame
      [] e.command.cmd = "InvalidMessage" -> fr = ErrorFrame(e.command.reason)
      [] e.command.cmd = "ChangeTopic" ->
            \E fetched \in BOOLEAN : fr = ChangeTopicFrame(e.command.topic_id, fetched)

\* C29: the frames written by the handlers (pong, messages, error) are on the
\* output one per answered inbound frame and in the order in which those
\* inbound frames arrived.
C29_ResponsesInArrivalOrder ==
    /\ Len(DirectOut) = Len(Answered)
    /\ \A i \in 1..Len(DirectOut) : Answers(Answered[i], DirectOut[i])

\* A ping and then an invalid frame were answered: the pong comes first and
\* the error last.
C29_Witness ==
    /\ Len(log) = 2
    /\ log[1].command.cmd = "Ping"
    /\ log[2].command.cmd = "InvalidMessage"
    /\ DirectOut = <<PongFrame, ErrorFrame(log[2].command.reason)>>

\* C30: handling a Prompt with a non-empty history starts a generation on
\* exactly that history, whoever owns the topic of its first message, and
\* leaves topic_id unchanged.
C30_PromptNotAuthorized ==
    [][(/\ FrameStep
        /\ Last(log').command.cmd = "Prompt"
        /\ Last(log').command.messages # <<>>)
       => (/\ Len(gens') = Len(gens) + 1
           /\ SubSeq(gens', 1, Len(gens)) = gens
           /\ Last(gens').previous_messages = Last(log').command.messages
           /\ Last(gens').pc = "open"
           /\ spawn_handle' = Some(Len(gens'))
           /\ out' = out
           /\ topic_id' = topic_id
           /\ conn' = "Open")]_vars

\* A generation started on a history whose first message is in a topic the
\* session's user does not own has written a token.
C30_Witness ==
    \E g \in 1..Len(gens) :
        /\ gens[g].previous_messages # <<>>
        /\ ~user_owns_topic_query(SessionUser, gens[g].previous_messages[1].topic_id)
        /\ Some(gens[g].previous_messages[1].topic_id) # topic_id
        /\ Len(ChatFramesOf(g)) > 0

\* C24: while a generation is in flight, whatever the provider does or fails
\* to do, an open connection with a frame to come can handle a Ping, a Stop,
\* a ChangeTopic and an invalid frame at once: no handler waits for the
\* generation.
C24_FramesHandledDuringGeneration ==
    (/\ conn = "Open"
     /\ frames_left > 0
     /\ \E g \in 1..Len(gens) : Running(g))
        => (/\ ENABLED HandlePing
            /\ ENABLED HandleStop
            /\ ENABLED HandleChangeTopic
            /\ ENABLED HandleInvalidMessage)

\* A ChangeTopic was answered right after the Prompt, while the generation was
\* still waiting for the provider to open the stream.
C24_Witness ==
    /\ Len(log) = 2
    /\ log[1].command.cmd = "Prompt"
    /\ log[2].command.cmd = "ChangeTopic"
    /\ Len(gens) = 1
    /\ gens[1].pc = "open"
    /\ out # <<>>
    /\ Last(out).type = "messages"

\* C25: a due tick of the watchdog is never held back, and once more than 10
\* seconds have passed without a ping while a generation is waiting on the
\* provider, the connection gets closed, whether or not the provider ever
\* answers.
C25_WatchdogTicksDuringGeneration ==
    /\ []((conn = "Open" /\ now = tick_at) => ENABLED Tick)
    /\ (/\ conn = "Open"
        /\ \E g \in 1..Len(gens) : Running(g)
        /\ now - LastHeardAt > Timeout) ~> (conn = "Closed")

\* The watchdog closed the connection while a generation was still waiting
\* for the provider.
C25_Witness ==
    /\ WatchdogClosed
    /\ now - LastHeardAt > Timeout
    /\ \E g \in 1..Len(gens) : Running(g)

\* C26: once the connection is closed no generation consumes another provider
\* item, no frame is written and nothing is persisted; a generation that was
\* in flight when the connection closed has built no message and none is
\* stored for it.
C26_CloseCancelsGeneration ==
    /\ [][conn = "Closed" => (gens' = gens /\ out' = out /\ store' = store)]_vars
    /\ [](conn = "Closed" =>
            \A g \in 1..Len(gens) :
                Running(g) =>
                    /\ gens[g].completion_message = None
                    /\ ~\E m \in Persisted :
                          m.role = "assistant" /\ m.content = gens[g].response_content)

\* The client went away while a generation that had written a token was still
\* in its stream, with a provider item left to yield.
C26_Witness ==
    /\ conn = "Closed"
    /\ heard.eof
    /\ stops = 1
    /\ Yielded(gens) < MaxTokens
    /\ \E g \in 1..Len(gens) : gens[g].pc = "stream" /\ Len(ChatFramesOf(g)) > 0

\* C31: the watchdog closes a connection only when more than 10 seconds have
\* passed since last_pong and at most 12, and no tick passes over a connection
\* whose last_pong is more than 10 seconds old: such a connection is open only
\* while that tick is due.
C31_WatchdogWindow ==
    /\ WatchdogClosed =>
          /\ now - last_pong > Timeout
          /\ now - last_pong <= Timeout + 2 * TickSeconds
    /\ (conn = "Open" /\ now - last_pong > Timeout) => now = tick_at

\* A ping arrived after the session's start and the watchdog closed the
\* connection at the first tick more than 10 seconds later.
C31_Witness ==
    /\ WatchdogClosed
    /\ last_pong > 0
    /\ heard.ping = last_pong
    /\ now - last_pong = Timeout + TickSeconds

\* C32: once the connection is closed it stays closed, no further frame is
\* handled, no frame is written and nothing is persisted.
C32_ClosedIsTerminal ==
    [][conn = "Closed"
       => (/\ conn' = "Closed"
           /\ log' = log
           /\ out' = out
           /\ store' = store
           /\ last_pong' = last_pong
           /\ topic_id' = topic_id)]_vars

\* The watchdog closed a connection on which a frame could still arrive.
C32_Witness ==
    /\ WatchdogClosed
    /\ frames_left > 0

\* C33: a Close frame is decoded to InvalidMessage("Close not a operation") and
\* answered with that one error frame; handling it neither closes nor stops
\* the actor, so a connection that is closed after a Close frame was closed by
\* the watchdog after more than 10 seconds, by the client going away or by a
\* panic.
C33_CloseFrameDoesNotClose ==
    /\ [][(FrameStep /\ Last(log').kind = "Close")
          => (/\ Last(log').command = InvalidMessage("Close not a operation")
              /\ out' = Append(out, ErrorFrame("Close not a operation"))
              /\ conn' = "Open"
              /\ stops' = stops)]_vars
    /\ []((log # <<>> /\ Last(log).kind = "Close" /\ conn = "Closed")
            => (/\ Closures = 1
                /\ heard.eof \/ panicked \/ now - last_pong > Timeout))

\* After a Close frame, answered with an error, the connection stayed open
\* until the watchdog closed it.
C33_Witness ==
    /\ WatchdogClosed
    /\ Len(log) = 1
    /\ log[1].kind = "Close"
    /\ out = <<ErrorFrame("Close not a operation")>>
    /\ now - last_pong > Timeout

----------------------------------------------------------------------------
\* The HTTP handlers of src/handlers/message_handler.rs. They work on the same
\* ConversationStore as the websocket session; no session is open meanwhile.

\* the number of requests served in one run
MaxRequests == 2

\* the websocket session's variables, which no HTTP handler touches
session == <<conn, panicked, stops, topic_id, last_pong, spawn_handle, gens, out, log, heard,
             now, tick_at, frames_left, horizon>>

\* LoggedUser.id of the callers
LoggedUsers == {"U1", "U2"}

\* A served request: the handler, its inputs, the HTTP status and body, the
\* store calls made in order, and the messages a completion was started on.
Reply(handler, user, topic, message_id, status, body, ops, completion) ==
    [handler |-> handler, user |-> user, topic_id |-> topic, message_id |-> message_id,
     status |-> status, body |-> body, ops |-> ops, completion |-> completion]

\* topic_operator::get_topic_query(topic_id, pool): Some(topic.user_id), or
\* None for the Err of a missing topic or of a failed query
get_topic_query(t, works) == IF works THEN TopicOwner(t) ELSE None

\* message_operator::create_topic_message_query(previous_messages,
\* new_message, pool), when it succeeds: the message is stored after them
create_topic_message_query(s, previous_messages, new_message) ==
    [s EXCEPT ![new_message.topic_id] =
        Append(@, [new_message EXCEPT !.sequence_number = Len(previous_messages) + 1])]

\* message_operator::delete_message_query(user_id, message_id, topic_id,
\* pool) reports Ok: the topic is the user's own and holds the message
DeleteOk(s, user, message_id, t, works) ==
    /\ works
    /\ TopicOwner(t) = Some(user)
    /\ message_id \in 1..Len(s[t])

\* the store after delete_message_query: on Ok the message and the ones after
\* it are gone, on Err nothing changed
delete_message_query(s, user, message_id, t, works) ==
    IF DeleteOk(s, user, message_id, t, works)
    THEN [s EXCEPT ![t] = SubSeq(@, 1, message_id - 1)]
    ELSE s

\* Mutant of create_message_completion_handler: the message is stored before
\* the owner of the topic is looked at.
create_message_completion_eager(s, user, t, fails) ==
    LET new_message == FromDetails(<<"q">>, t, 0, "user", None, None)
        topic_result == get_topic_query(t, fails # 1)
        stored == create_topic_message_query(s, s[t], new_message)
    IN  IF topic_result # None /\ topic_result[1] # user
        THEN [store |-> stored,
              reply |-> Reply("create_message_completion", user, t, 0, "Unauthorized", None,
                              <<"create_topic_message_query", "get_topic_query">>, None)]
        ELSE IF topic_result = None
        THEN [store |-> stored,
              reply |-> Reply("create_message_completion", user, t, 0, "BadRequest", None,
                              <<"create_topic_message_query", "get_topic_query">>, None)]
        ELSE [store |-> stored,
              reply |-> Reply("create_message_completion", user, t, 0, "Ok", None,
                              <<"create_topic_message_query", "get_topic_query",
                                "stream_completion">>,
                              Some(stored[t]))]

\* create_message_completion_handler; fails names the store call that
\* returns Err (0: none)
create_message_completion_handler(s, user, t, fails) ==
    LET new_message == FromDetails(<<"q">>, t, 0, "user", None, None)
        topic_result == get_topic_query(t, fails # 1)
        previous_messages == s[t]
        stored == create_topic_message_query(s, previous_messages, new_message)
    IN  IF topic_result # None /\ topic_result[1] # user
        THEN [store |-> s,
              reply |-> Reply("create_message_completion", user, t, 0, "Unauthorized", None,
                              <<"get_topic_query">>, None)]
        ELSE IF topic_result = None
        THEN [store |-> s,
              reply |-> Reply("create_message_completion", user, t, 0, "BadRequest", None,
                              <<"get_topic_query">>, None)]
        ELSE IF fails = 2
        THEN [store |-> s,
              reply |-> Reply("create_message_completion", user, t, 0, "BadRequest", None,
                              <<"get_topic_query", "get_topic_messages">>, None)]
        ELSE IF fails = 3
        THEN [store |-> s,
              reply |-> Reply("create_message_completion", user, t, 0, "BadRequest", None,
                              <<"get_topic_query", "get_topic_messages",
                                "create_topic_message_query">>, None)]
        ELSE [store |-> stored,
              reply |-> Reply("create_message_completion", user, t, 0, "Ok", None,
                              <<"get_topic_query", "get_topic_messages",
                                "create_topic_message_query", "stream_completion">>,
                              Some(stored[t]))]

\* Mutant of get_all_topic_messages: the owner of the topic is not compared
\* with the caller.
get_all_topic_messages_open(s, user, t, fails) ==
    LET topic_result == get_topic_query(t, fails # 1)
    IN  IF topic_result = None
        THEN Reply("get_all_topic_messages", user, t, 0, "BadRequest", None,
                   <<"get_topic_query">>, None)
        ELSE IF fails = 2
        THEN Reply("get_all_topic_messages", user, t, 0, "BadRequest", None,
                   <<"get_topic_query", "get_messages_for_topic_query">>, None)
        ELSE Reply("get_all_topic_messages", user, t, 0, "Ok",
                   Some(get_messages_for_topic_query(t)),
                   <<"get_topic_query", "get_messages_for_topic_query">>, None)

\* get_all_topic_messages; it reads the store and leaves it alone
get_all_topic_messages(s, user, t, fails) ==
    LET topic_result == get_topic_query(t, fails # 1)
    IN  IF topic_result # None /\ topic_result[1] # user
        THEN Reply("get_all_topic_messages", user, t, 0, "Unauthorized", None,
                   <<"get_topic_query">>, None)
        ELSE IF topic_result = None
        THEN Reply("get_all_topic_messages", user, t, 0, "BadRequest", None,
                   <<"get_topic_query">>, None)
        ELSE IF fails = 2
        THEN Reply("get_all_topic_messages", user, t, 0, "BadRequest", None,
                   <<"get_topic_query", "get_messages_for_topic_query">>, None)
        ELSE Reply("get_all_topic_messages", user, t, 0, "Ok",
                   Some(get_messages_for_topic_query(t)),
                   <<"get_topic_query", "get_messages_for_topic_query">>, None)

\* Mutant of regenerate_message_handler: the Err of the delete is returned.
regenerate_message_checked(s, user, message_id, t, fails) ==
    LET deleted == delete_message_query(s, user, message_id, t, fails # 1)
    IN  IF ~DeleteOk(s, user, message_id, t, fails # 1)
        THEN [store |-> deleted,
              reply |-> Reply("regenerate_message", user, t, message_id, "BadRequest", None,
                              <<"delete_message_query">>, None)]
        ELSE IF fails = 2
        THEN [store |-> deleted,
              reply |-> Reply("regenerate_message", user, t, message_id, "BadRequest", None,
                              <<"delete_message_query", "get_topic_messages">>, None)]
        ELSE [store |-> deleted,
              reply |-> Reply("regenerate_message", user, t, message_id, "Ok", None,
                              <<"delete_message_query", "get_topic_messages",
                                "stream_completion">>,
                              Some(deleted[t]))]

\* regenerate_message_handler: let _ = delete_message_query(..), then the
\* topic's messages are fetched and a completion is started on them
regenerate_message_handler(s, user, message_id, t, fails) ==
    LET deleted == delete_message_query(s, user, message_id, t, fails # 1)
    IN  IF fails = 2
        THEN [store |-> deleted,
              reply |-> Reply("regenerate_message", user, t, message_id, "BadRequest", None,
                              <<"delete_message_query", "get_topic_messages">>, None)]
        ELSE [store |-> deleted,
              reply |-> Reply("regenerate_message", user, t, message_id, "Ok", None,
                              <<"delete_message_query", "get_topic_messages",
                                "stream_completion">>,
                              Some(deleted[t]))]

\* the message ids a regenerate request names, as positions in the topic
MessageIds == 1..3

\* the store calls of one handler, numbered; 0: none of them fails
Faults == 0..3

\* POST /message
CreateMessageCompletion ==
    \E user \in LoggedUsers, t \in Topics, fails \in Faults :
      LET r == create_message_completion_handler(store, user, t, fails) IN
        /\ Len(replies) < MaxRequests
        /\ store' = r.store
        /\ replies' = Append(replies, r.reply)
        /\ UNCHANGED <<session, db>>

\* GET /messages/{topic_id}
GetAllTopicMessages ==
    \E user \in LoggedUsers, t \in Topics, fails \in Faults :
        /\ Len(replies) < MaxRequests
        /\ fails < 3
        /\ replies' = Append(replies, get_all_topic_messages(store, user, t, fails))
        /\ UNCHANGED <<session, db, store>>

\* DELETE /message
RegenerateMessageRequest ==
    \E user \in LoggedUsers, t \in Topics, message_id \in MessageIds, fails \in Faults :
      LET r == regenerate_message_handler(store, user, message_id, t, fails) IN
        /\ Len(replies) < MaxRequests
        /\ fails < 3
        /\ store' = r.store
        /\ replies' = Append(replies, r.reply)
        /\ UNCHANGED <<session, db>>

MessageInit ==
    /\ SessionWith(0, <<>>)
    /\ db = <<>>
    /\ replies = <<>>

MessageNext ==
    \/ CreateMessageCompletion
    \/ GetAllTopicMessages
    \/ RegenerateMessageRequest

MessageSpec == MessageInit /\ [][MessageNext]_vars

\* this step serves one more request or call
RequestStep == Len(replies') = Len(replies) + 1

\* C34: create_message_completion_handler looks the topic up before any other
\* store call; for a topic that is missing or owned by another user it returns
\* BadRequest or Unauthorized after that one lookup, stores no message and
\* starts no completion.
C34_OwnershipBeforeWrite ==
    [][(RequestStep /\ Last(replies').handler = "create_message_completion")
       => LET r == Last(replies') IN
            /\ r.ops[1] = "get_topic_query"
            /\ TopicOwner(r.topic_id) # Some(r.user)
                  => /\ r.status \in {"BadRequest", "Unauthorized"}
                     /\ TopicOwner(r.topic_id) = None => r.status = "BadRequest"
                     /\ r.ops = <<"get_topic_query">>
                     /\ r.completion = None
                     /\ store' = store]_vars

\* A user was refused on another user's topic and then on a missing topic,
\* and the store is as it was.
C34_Witness ==
    /\ Len(replies) = 2
    /\ \A i \in 1..2 : replies[i].handler = "create_message_completion"
    /\ TopicOwner(replies[1].topic_id) \notin {None, Some(replies[1].user)}
    /\ replies[1].status = "Unauthorized"
    /\ TopicOwner(replies[2].topic_id) = None
    /\ replies[2].status = "BadRequest"
    /\ store = InitStore

\* C35: get_all_topic_messages answers a caller who is not the owner of the
\* topic, or who names a missing topic, with BadRequest or Unauthorized and
\* without fetching the messages; messages are returned to the owner only.
C35_MessagesOnlyToOwner ==
    \A i \in 1..Len(replies) :
        replies[i].handler = "get_all_topic_messages"
            => /\ TopicOwner(replies[i].topic_id) # Some(replies[i].user)
                    => /\ replies[i].status \in {"BadRequest", "Unauthorized"}
                       /\ replies[i].ops = <<"get_topic_query">>
                       /\ replies[i].body = None
               /\ replies[i].body # None
                    => /\ replies[i].status = "Ok"
                       /\ TopicOwner(replies[i].topic_id) = Some(replies[i].user)

\* The owner was given the messages of a topic that another user was refused.
C35_Witness ==
    /\ Len(replies) = 2
    /\ \A i \in 1..2 : replies[i].handler = "get_all_topic_messages"
    /\ replies[1].topic_id = replies[2].topic_id
    /\ replies[1].status = "Ok"
    /\ replies[1].body # None
    /\ replies[1].body[1] # <<>>
    /\ replies[2].user # replies[1].user
    /\ replies[2].status = "Unauthorized"

\* C36: regenerate_message_handler goes on whatever delete_message_query
\* reports: when the delete removed nothing, the handler still fetches the
\* topic's messages and, the fetch succeeding, starts a completion on the
\* topic's messages as they were.
C36_DeleteResultDiscarded ==
    [][(/\ RequestStep
        /\ Last(replies').handler = "regenerate_message"
        /\ store' = store)
       => LET r == Last(replies') IN
            /\ Len(r.ops) >= 2
            /\ r.ops[1] = "delete_message_query"
            /\ r.ops[2] = "get_topic_messages"
            /\ r.status = "Ok"
                  => /\ r.ops[Len(r.ops)] = "stream_completion"
                     /\ r.completion = Some(store[r.topic_id])
            /\ r.status # "Ok" => Len(r.ops) = 2]_vars

\* A user named a message of another user's topic: nothing was deleted and a
\* completion was started on that topic's two messages.
C36_Witness ==
    /\ Len(replies) = 1
    /\ replies[1].handler = "regenerate_message"
    /\ TopicOwner(replies[1].topic_id) \notin {None, Some(replies[1].user)}
    /\ store = InitStore
    /\ replies[1].status = "Ok"
    /\ replies[1].completion = Some(InitStore[replies[1].topic_id])
    /\ Len(InitStore[replies[1].topic_id]) = 2

----------------------------------------------------------------------------
\* update_user_query of src/operators/user_operator.rs. db is the users table:
\* for each user id the three columns the query writes.

\* the usernames in use
Usernames == {<<"a", "n", "n">>, <<"b", "o", "b">>}

\* UpdateUserData.username: absent, empty, or a name
RequestedNames == {None, Some(<<>>)} \cup {Some(n) : n \in Usernames}

\* UpdateUserData.website
Websites == {None, Some(<<"w">>)}

\* U1 is called ann, U2 has no username yet
InitUsers ==
    [u \in LoggedUsers |->
        [username |-> IF u = "U1" THEN Some(<<"a", "n", "n">>) ELSE None,
         website |-> None,
         visible_email |-> FALSE]]

UpdateUserData(username, website, visible_email) ==
    [username |-> username, website |-> website, visible_email |-> visible_email]

\* the rows that users.filter(username.eq(user_name)) selects
UsersNamed(users, user_name) ==
    {u \in DOMAIN users : users[u].username = Some(user_name)}

\* get_user_by_username_query: Some(first row with that username); None for
\* "User not found" and for "Error loading user"
get_user_by_username_query(users, user_name, works) ==
    IF works /\ UsersNamed(users, user_name) # {}
    THEN Some(users[CHOOSE u \in UsersNamed(users, user_name) : TRUE])
    ELSE None

\* opt.unwrap_or("")
UnwrapOrEmpty(opt) == IF opt = None THEN <<>> ELSE opt[1]

\* the column value written: an absent or empty text is stored as NULL
NonEmpty(opt) == IF UnwrapOrEmpty(opt) # <<>> THEN opt ELSE None

\* the test that guards "That username is already taken": a user with the
\* requested username was found, and that user's username is not the
\* requested one
UsernameTaken(users, new_user, works) ==
    /\ UnwrapOrEmpty(new_user.username) # <<>>
    /\ LET user_by_username ==
               get_user_by_username_query(users, new_user.username[1], works)
       IN  /\ user_by_username # None
           /\ ~(/\ user_by_username[1].username # None
                /\ user_by_username[1].username[1] = new_user.username[1])

\* one call of update_user_query: its arguments and its result
UserReply(user_id, new_user, result) ==
    [call |-> "update_user_query", user_id |-> user_id, new_user |-> new_user,
     result |-> result]

\* update_user_query; fails names the query that returns Err (0: none,
\* 1: the lookup by username, 2: the update)
update_user_query(users, user_id, new_user, fails) ==
    IF UsernameTaken(users, new_user, fails # 1)
    THEN [users |-> users,
          reply |-> UserReply(user_id, new_user, "That username is already taken")]
    ELSE IF fails = 2
    THEN [users |-> users,
          reply |-> UserReply(user_id, new_user, "Error updating user")]
    ELSE [users |-> [users EXCEPT ![user_id] =
                        [username |-> NonEmpty(new_user.username),
                         website |-> NonEmpty(new_user.website),
                         visible_email |-> new_user.visible_email]],
          reply |-> UserReply(user_id, new_user, "Ok")]

\* PUT /user
UpdateUser ==
    \E user_id \in LoggedUsers, username \in RequestedNames, website \in Websites,
       visible_email \in BOOLEAN, fails \in 0..2 :
      LET r == update_user_query(db, user_id,
                                 UpdateUserData(username, website, visible_email), fails)
      IN  /\ Len(replies) < MaxRequests
          /\ db' = r.users
          /\ replies' = Append(replies, r.reply)
          /\ UNCHANGED <<session, store>>

UserInit ==
    /\ SessionWith(0, <<>>)
    /\ db = InitUsers
    /\ replies = <<>>

UserNext == UpdateUser

UserSpec == UserInit /\ [][UserNext]_vars

\* C37: when update_user_query is asked for a non-empty username that a
\* different user holds, it returns "That username is already taken" and the
\* users table keeps the caller's username, website and visible_email.
C37_UsernamesUnique ==
    [][(/\ RequestStep
        /\ Last(replies').call = "update_user_query"
        /\ UnwrapOrEmpty(Last(replies').new_user.username) # <<>>
        /\ \E u \in DOMAIN db :
              /\ u # Last(replies').user_id
              /\ db[u].username = Last(replies').new_user.username)
       => (/\ Last(replies').result = "That username is already taken"
           /\ db'[Last(replies').user_id] = db[Last(replies').user_id])]_vars

----------------------------------------------------------------------------
\* handle_webhook_query of src/operators/stripe_customer_operator.rs and
\* create_invitation of src/handlers/invitation_handler.rs. db holds the emails
\* of the users, the user_plans rows, the invitations rows and the invitation
\* mails sent.

\* "old" has an account, "new" has none
Emails == {"new", "old"}

InitBilling ==
    [users |-> {"old"}, user_plans |-> <<>>, invitations |-> <<>>, sent |-> <<>>]

\* the Stripe-Signature header: computed with WEBHOOK_SIGNING_SECRET or not
Signatures == {"signed", "forged"}

\* the parts of a webhook event that handle_webhook_query reads: event.type_,
\* session.customer, the price of each of session.line_items.data, and
\* session.customer_email or customer.email
Event(type, customer, line_items, email) ==
    [type |-> type, customer |-> customer, line_items |-> line_items, email |-> email]

Checkout(customer, line_items, email) ==
    Event("checkout.session.completed", customer, line_items, email)

\* prices: STRIPE_GOLD_PLAN_ID, STRIPE_SILVER_PLAN_ID, and bronze for any other
Events ==
    { Checkout(None, <<Some("gold")>>, Some("new")),
      Checkout(Some("cus"), <<>>, Some("new")),
      Checkout(Some("cus"), <<Some("gold"), Some("silver")>>, Some("new")),
      Checkout(Some("cus"), <<None>>, Some("new")),
      Checkout(Some("cus"), <<Some("bronze")>>, Some("new")),
      Checkout(Some("cus"), <<Some("gold")>>, Some("new")),
      Checkout(Some("cus"), <<Some("silver")>>, Some("old")),
      Checkout(Some("cus"), <<Some("gold")>>, None),
      Event("customer.created", Some("cus"), <<>>, None),
      Event("customer.created", Some("cus"), <<>>, Some("new")),
      Event("customer.created", Some("cus"), <<>>, Some("old")),
      Event("invoice.paid", Some("cus"), <<>>, None) }

\* the queries of the billing calls, numbered: 1 the insert into user_plans,
\* 2 get_user_query, 3 get_user_by_email_query, 4 the insert into
\* invitations, 5 send_invitation; 0: none of them fails
BillingFaults == 0..5

\* the outcome of a call: the tables after it, its result (Ok, the message of
\* the DefaultError, or panicked) and the queries it made
Outcome(d, result, ops) == [db |-> d, result |-> result, ops |-> ops]

\* Mutant of construct_event: the signature is not verified.
construct_event_unverified(event, stripe_signature) == Some(event)

\* Webhook::construct_event(payload_str, stripe_signature, &webhook_secret):
\* Some(event) for the Ok of a signature that verifies
construct_event(event, stripe_signature) ==
    IF stripe_signature = "signed" THEN Some(event) ELSE None

\* get_user_by_email_query(..): Some(user), or None for "User not found" and
\* for "Error loading user"
get_user_by_email_query(d, email, works) ==
    IF works /\ email \in d.users THEN Some(email) ELSE None

\* password_reset_operator::get_user_query(&email, pool).ok()
get_user_query(d, email, works) ==
    IF works /\ email \in d.users THEN Some(email) ELSE None

\* email_operator::send_invitation(app_url, &invitation)
send_invitation(d, email, works) ==
    IF works
    THEN Outcome([d EXCEPT !.sent = Append(@, email)], "Ok", <<"send_invitation">>)
    ELSE Outcome(d, "Error sending email", <<"send_invitation">>)

\* create_invitation_query
create_invitation_query(d, email, fails) ==
    LET user_exists == get_user_by_email_query(d, email, fails # 3) # None
    IN  IF user_exists
        THEN Outcome(d, "An account with this email already exists.",
                     <<"get_user_by_email_query">>)
        ELSE IF fails = 4
        THEN Outcome(d, "Error inserting invitation.",
                     <<"get_user_by_email_query", "insert_invitation">>)
        ELSE Outcome([d EXCEPT !.invitations = Append(@, email)], "Ok",
                     <<"get_user_by_email_query", "insert_invitation">>)

\* create_invitation: create_invitation_query(..)?, then send_invitation
create_invitation(d, email, fails) ==
    LET inserted == create_invitation_query(d, email, fails)
        mailed == send_invitation(inserted.db, email, fails # 5)
    IN  IF inserted.result # "Ok"
        THEN inserted
        ELSE Outcome(mailed.db, mailed.result, inserted.ops \o mailed.ops)

\* create_user_plan_query(stripe_customer_id, plan_name, pool)
create_user_plan_query(d, stripe_customer_id, plan_name, works) ==
    IF works
    THEN Outcome([d EXCEPT !.user_plans = Append(@, <<stripe_customer_id, plan_name>>)],
                 "Ok", <<"create_user_plan_query">>)
    ELSE Outcome(d, "Error inserting new user plan, try again",
                 <<"create_user_plan_query">>)

\* lines 231-234 and 242-245: the invitation of a customer without account
InviteIfUnknown(d, email, fails, ops) ==
    LET arguflow_user == get_user_query(d, email, fails # 2)
        invited == create_invitation(d, email, fails)
    IN  IF arguflow_user # None
        THEN Outcome(d, "Ok", ops \o <<"get_user_query">>)
        ELSE Outcome(invited.db, invited.result,
                     ops \o <<"get_user_query">> \o invited.ops)

\* the EventType::CheckoutSessionCompleted arm
CheckoutSessionCompleted(d, checkout, fails) ==
    IF checkout.customer = None
    THEN Outcome(d, "Stripe customer id is none", <<>>)
    ELSE IF Len(checkout.line_items) # 1
    THEN Outcome(d, "Session line items length is not 1", <<>>)
    ELSE IF checkout.line_items[1] = None
    THEN Outcome(d, "Plan price is none", <<>>)
    ELSE IF checkout.line_items[1][1] \notin {"gold", "silver"}
    THEN Outcome(d, "Plan id is not silver or gold", <<>>)
    ELSE LET plan == create_user_plan_query(d, checkout.customer[1],
                                            checkout.line_items[1][1], fails # 1)
         IN  IF plan.result # "Ok"
             THEN Outcome(d, "Error creating user plan, try again", plan.ops)
             ELSE IF checkout.email = None
             THEN Outcome(plan.db, "panicked", plan.ops)
             ELSE InviteIfUnknown(plan.db, checkout.email[1], fails, plan.ops)

\* the EventType::CustomerCreated arm
CustomerCreated(d, customer, fails) ==
    IF customer.email = None
    THEN Outcome(d, "Ok", <<>>)
    ELSE InviteIfUnknown(d, customer.email[1], fails, <<>>)

\* handle_webhook_query
handle_webhook_query(d, stripe_signature, payload, fails) ==
    LET constructed == construct_event(payload, stripe_signature)
    IN  IF constructed = None
        THEN Outcome(d, "Ok", <<>>)
        ELSE IF constructed[1].type = "checkout.session.completed"
        THEN CheckoutSessionCompleted(d, constructed[1], fails)
        ELSE IF constructed[1].type = "customer.created"
        THEN CustomerCreated(d, constructed[1], fails)
        ELSE Outcome(d, "Ok", <<>>)

\* POST /stripe/webhook
HandleWebhook ==
    \E stripe_signature \in Signatures, payload \in Events, fails \in BillingFaults :
      LET r == handle_webhook_query(db, stripe_signature, payload, fails) IN
        /\ Len(replies) < MaxRequests
        /\ stripe_signature = "signed" \/ fails = 0
        /\ db' = r.db
        /\ replies' = Append(replies,
                             [call |-> "handle_webhook_query",
                              stripe_signature |-> stripe_signature,
                              event |-> payload, result |-> r.result, ops |-> r.ops])
        /\ UNCHANGED <<session, store>>

\* POST /invitation, once the email and the Origin header are accepted
CreateInvitation ==
    \E email \in Emails, fails \in BillingFaults :
      LET r == create_invitation(db, email, fails) IN
        /\ Len(replies) < MaxRequests
        /\ fails \in {0, 3, 4, 5}
        /\ db' = r.db
        /\ replies' = Append(replies,
                             [call |-> "create_invitation", email |-> email,
                              result |-> r.result, ops |-> r.ops])
        /\ UNCHANGED <<session, store>>

BillingInit ==
    /\ SessionWith(0, <<>>)
    /\ db = InitBilling
    /\ replies = <<>>

BillingNext ==
    \/ HandleWebhook
    \/ CreateInvitation

BillingSpec == BillingInit /\ [][BillingNext]_vars

\* the four checkout-completed events that are refused before any query
RefusedCheckout(event) ==
    /\ event.type = "checkout.session.completed"
    /\ \/ event.customer = None
       \/ Len(event.line_items) # 1
       \/ event.line_items[1] = None
       \/ event.line_items[1][1] \notin {"gold", "silver"}

RefusalMessages ==
    {"Stripe customer id is none", "Session line items length is not 1",
     "Plan price is none", "Plan id is not silver or gold"}

C39_InvitationOnlyWithoutAccount ==
    [][RequestStep
       => LET r == Last(replies') IN
            /\ (r.call = "create_invitation" /\ r.email \in db.users)
                  => /\ r.result = "An account with this email already exists."
                     /\ db'.invitations = db.invitations
            /\ \A i \in DOMAIN db'.invitations :
                  i > Len(db.invitations) => db'.invitations[i] \notin db.users]_vars

----------------------------------------------------------------------------
\* get_card_by_id of src/handlers/card_handler.rs. db is the cards table: for
\* each card id the two fields of the card that the handler reads.

\* a public card and a private card of U1, a private card of U2
InitCards ==
    [c \in {"pub", "priv1", "priv2"} |->
        [id |-> c,
         private |-> c # "pub",
         author |-> Some([id |-> IF c = "priv2" THEN "U2" ELSE "U1"])]]

\* the card ids requested; no card has the id "gone"
CardIds == {"pub", "priv1", "priv2", "gone"}

\* Option<LoggedUser>: an anonymous or a logged-in requester
Requesters == {None} \cup {Some([id |-> u]) : u \in LoggedUsers}

\* card_operator::get_metadata_and_votes_from_id_query(card_id,
\* current_user_id, pool): Some(card) for Ok, None for the Err of a missing
\* card or of a failed query
get_metadata_and_votes_from_id_query(cards, card_id, works) ==
    IF works /\ card_id \in DOMAIN cards THEN Some(cards[card_id]) ELSE None

\* a served request: its inputs, what the query returned, the HTTP status and
\* the card in the body
CardReply(card_id, user, card, status, body) ==
    [handler |-> "get_card_by_id", card_id |-> card_id, user |-> user, card |-> card,
     status |-> status, body |-> body]

\* user.map(|user| user.id)
UserId(user) == IF user = None THEN None ELSE Some(user[1].id)

\* Mutant of get_card_by_id: the author of a private card is not compared
\* with the requester.
get_card_by_id_unchecked(cards, card_id, user, works) ==
    LET current_user_id == UserId(user)
        card == get_metadata_and_votes_from_id_query(cards, card_id, works)
    IN  IF card = None
        THEN CardReply(card_id, user, card, "BadRequest", None)
        ELSE IF card[1].private /\ current_user_id = None
        THEN CardReply(card_id, user, card, "Unauthorized", None)
        ELSE CardReply(card_id, user, card, "Ok", card)

\* get_card_by_id
get_card_by_id(cards, card_id, user, works) ==
    LET current_user_id == UserId(user)
        card == get_metadata_and_votes_from_id_query(cards, card_id, works)
    IN  IF card = None
        THEN CardReply(card_id, user, card, "BadRequest", None)
        ELSE IF card[1].private /\ current_user_id = None
        THEN CardReply(card_id, user, card, "Unauthorized", None)
        ELSE IF card[1].private /\ Some(card[1].author[1].id) # current_user_id
        THEN CardReply(card_id, user, card, "Forbidden", None)
        ELSE CardReply(card_id, user, card, "Ok", card)

\* GET /card/{card_id}
GetCardById ==
    \E card_id \in CardIds, user \in Requesters, works \in BOOLEAN :
        /\ Len(replies) < MaxRequests
        /\ replies' = Append(replies, get_card_by_id(db, card_id, user, works))
        /\ UNCHANGED <<session, store, db>>

CardInit ==
    /\ SessionWith(0, <<>>)
    /\ db = InitCards
    /\ replies = <<>>

CardNext == GetCardById

CardSpec == CardInit /\ [][CardNext]_vars

====
